---- MODULE Spec2Model ----
(***************************************************************************)
(* Transcription Assistant: the sequence detection of the frontend         *)
(* (TranscriptionAssistant.sortTranscriptionFiles over                     *)
(* extractSequenceNumber, run by selectTranscriptionFiles and by           *)
(* handleTranscriptionFiles) and the transcript merge engine behind the    *)
(* merge_transcriptions command.                                           *)
(*                                                                         *)
(* A file name is a sequence of one-character strings, so that the regular *)
(* expressions of extractSequenceNumber are computed character by          *)
(* character.  All files of one selection lie in one directory.            *)
(***************************************************************************)
EXTENDS Integers, Sequences, FiniteSets, TLC

VARIABLES
    pc,                 \* position of the run: "idle", "detected", ...
    selected,           \* the paths handed to the handler (dialog result or drop payload)
    via,                \* which handler ran: "none", "dialog" or "drop"
    transcriptionFiles, \* TranscriptionAssistant.transcriptionFiles
    mergeBtnDisabled,   \* mergeBtn.disabled
    clearAllBtnDisabled,\* clearAllBtn.disabled
    outputPath,         \* value of the outputPath input field
    lastOutputPath,     \* TranscriptionAssistant.lastOutputPath, <<>> for null
    sourceFiles,        \* merge engine: the SourceFiles of the run, in sequence order
    durations,          \* merge engine: resolved duration of each file, ms
    computedOffsets,    \* merge engine: the running sum of the prior durations, ms
    offsets,            \* merge engine: offset of each file after manual overrides, ms
    merged,             \* merge engine: the blocks of the MergedDocument
    warnings,           \* merge engine: the warning records of the MergedDocument
    options,            \* merge engine: the options the repair pass read, <<>> before it
    repaired,           \* merge engine: the blocks of the final MergedDocument
    formatted,          \* output formatter: target grammar and entries written, <<>> before
    rawFiles,           \* parser: the raw lines of each input file, by original file index
    completed,          \* parser: the indices of the per-file parse tasks that have finished
    parsed,             \* parser: the result sink, one slot per original file index
    displayed,          \* the file names in #transcriptionList, top to bottom
    selectedFile,       \* this.selectedFile, <<>> for null
    startProcessingBtnDisabled, \* #startProcessingBtn.disabled
    exportBtnDisabled,  \* #exportBtn.disabled
    invokedFiles,       \* the `files` argument of the latest merge_transcriptions call
    mergeInFlight,      \* merge_transcriptions calls whose promise has not settled
    mergeTimers,        \* pending 2000 ms timers of mergeTranscriptions
    clicks,             \* events handled so far
    pendingMerges,      \* the `files` of the merge_transcriptions calls in flight, oldest first
    lastMerged,         \* the `files` of the call that resolved last, <<>> before
    exportInFlight,     \* export_merged_transcription calls whose promise has not settled
    exportTimers,       \* pending 2000 ms timers of exportResults
    infoRequests,       \* the get_file_info calls in flight, oldest first
    shownInfo,          \* the file whose name, duration and size are shown, <<>> for none
    processingRuns,     \* start_audio_processing runs that have not ended
    sentMaxDuration,    \* maxDuration of the latest start_audio_processing call, <<>> before
    ffmpegProgressShown, \* #ffmpegDownloadProgress is displayed
    ffmpegReadyShown,   \* #ffmpegReady is displayed
    ffmpegHideTimers,   \* pending 1000 ms timers of updateFFmpegDownloadProgress
    downloadInProgress, \* the latest ffmpeg-download-progress event had progress < 100
    sequenceName,       \* the file name a comparison gives to extractSequenceNumber
    sequenceNumber,     \* what extractSequenceNumber returned for it, Null for null
    decidingPattern     \* extractSequenceNumber: the pattern that returned, 0 for none

uiVars == <<selected, via, transcriptionFiles, mergeBtnDisabled,
            clearAllBtnDisabled, outputPath, lastOutputPath>>

engineVars_noWarnings == <<sourceFiles, durations, computedOffsets, offsets, merged>>

engineVars == <<engineVars_noWarnings, warnings>>

repairVars == <<options, repaired, formatted>>

parseVars == <<rawFiles, completed, parsed>>

mergeCallVars == <<invokedFiles, mergeInFlight, pendingMerges, mergeTimers, lastMerged>>

exportVars == <<exportBtnDisabled, exportInFlight, exportTimers>>

mediaVars == <<selectedFile, startProcessingBtnDisabled, infoRequests, shownInfo,
               processingRuns, sentMaxDuration>>

ffmpegVars == <<ffmpegProgressShown, ffmpegReadyShown, ffmpegHideTimers, downloadInProgress>>

backendVars == <<engineVars, repairVars, parseVars>>

nameVars == <<sequenceName, sequenceNumber, decidingPattern>>

detachedVars == <<backendVars, nameVars>>

shellRest == <<mergeCallVars, exportVars, mediaVars, ffmpegVars, nameVars, clicks>>

shellVars == <<displayed, shellRest>>

vars == <<pc, uiVars, engineVars, repairVars, parseVars, shellVars>>

---------------------------------------------------------------------------
(* Bounds of the model *)

MaxFiles == 2
MaxStemLen == 2

(* Characters of the modelled file names *)
Digits == {"0", "1", "2", "3", "4", "5", "6", "7", "8", "9"}
Separators == {"_", "-", " "}
StemAlphabet == {"a", "1", "2"}
Ext == <<".", "m", "d">>

Null == -1

DigitValue(c) ==
    CASE c = "0" -> 0 [] c = "1" -> 1 [] c = "2" -> 2 [] c = "3" -> 3
      [] c = "4" -> 4 [] c = "5" -> 5 [] c = "6" -> 6 [] c = "7" -> 7
      [] c = "8" -> 8 [] c = "9" -> 9

IsDigit(c) == c \in Digits

AllDigits(s, from) == \A k \in from..Len(s) : IsDigit(s[k])

---------------------------------------------------------------------------
(* String helpers of the comparator *)

\* a.split(/[\\/]/).pop() || '' : the part after the last slash of either kind
fileNameOf(path) ==
    LET slashes == {k \in 1..Len(path) : path[k] \in {"/", "\\"}}
    IN  IF slashes = {} THEN path
        ELSE LET last == CHOOSE k \in slashes : \A m \in slashes : m <= k
             IN  SubSeq(path, last + 1, Len(path))

\* filename.replace(/\.[^.]*$/, '') : cut from the last dot on
nameWithoutExt(filename) ==
    LET dots == {k \in 1..Len(filename) : filename[k] = "."}
    IN  IF dots = {} THEN filename
        ELSE LET last == CHOOSE k \in dots : \A m \in dots : m <= k
             IN  SubSeq(filename, 1, last - 1)

\* parseInt(digits, 10) on a non-empty run of decimal digits
RECURSIVE parseInt(_)
parseInt(ds) ==
    IF ds = <<>> THEN 0
    ELSE parseInt(SubSeq(ds, 1, Len(ds) - 1)) * 10 + DigitValue(ds[Len(ds)])

\* start of the maximal run of digits that ends the string, 0 if there is none
TrailingDigitStart(s) ==
    IF s = <<>> \/ ~IsDigit(s[Len(s)]) THEN 0
    ELSE CHOOSE k \in 1..Len(s) :
            /\ AllDigits(s, k)
            /\ \A m \in 1..(k - 1) : ~AllDigits(s, m)

\* a pattern 1 that takes digit-only names alone: /^(\d+)$/
Pattern1_wholeName(s) == IF s # <<>> /\ AllDigits(s, 1) THEN s ELSE <<>>

\* Pattern 1: /(\d+)$/
Pattern1(s) ==
    LET k == TrailingDigitStart(s)
    IN  IF k = 0 THEN <<>> ELSE SubSeq(s, k, Len(s))

\* Pattern 2: /[_\-\s](\d+)$/
Pattern2(s) ==
    LET hits == {k \in 1..(Len(s) - 1) : s[k] \in Separators /\ AllDigits(s, k + 1)}
    IN  IF hits = {} THEN <<>>
        ELSE LET k == CHOOSE h \in hits : \A m \in hits : h <= m
             IN  SubSeq(s, k + 1, Len(s))

\* the case folding of String.prototype.toLowerCase and of the i flag (ASCII)
UpperCase == <<"A", "B", "C", "D", "E", "F", "G", "H", "I", "J", "K", "L", "M",
               "N", "O", "P", "Q", "R", "S", "T", "U", "V", "W", "X", "Y", "Z">>

LowerCase == <<"a", "b", "c", "d", "e", "f", "g", "h", "i", "j", "k", "l", "m",
               "n", "o", "p", "q", "r", "s", "t", "u", "v", "w", "x", "y", "z">>

toLowerCase(s) ==
    [k \in 1..Len(s) |->
        IF \E u \in DOMAIN UpperCase : UpperCase[u] = s[k]
        THEN LowerCase[CHOOSE u \in DOMAIN UpperCase : UpperCase[u] = s[k]]
        ELSE s[k]]

\* the Latin keywords of pattern 3 (the Cyrillic ones need letters the
\* modelled names do not have)
Keywords == { <<"p", "a", "r", "t">>,
              <<"s", "e", "g", "m", "e", "n", "t">>,
              <<"f", "i", "l", "e">>,
              <<"c", "h", "a", "p", "t", "e", "r">> }

\* Pattern 3: /(?:part|segment|file|chapter|...)[_\-\s]*(\d+)$/i
Pattern3(s) ==
    LET hits == {d \in 2..Len(s) :
                    /\ AllDigits(s, d)
                    /\ \E w \in Keywords : \E p \in 1..(d - 1) :
                          /\ p + Len(w) <= d
                          /\ toLowerCase(SubSeq(s, p, p + Len(w) - 1)) = w
                          /\ \A m \in (p + Len(w))..(d - 1) : s[m] \in Separators}
    IN  IF hits = {} THEN <<>>
        ELSE LET d == CHOOSE h \in hits : \A m \in hits : h <= m
             IN  SubSeq(s, d, Len(s))

\* Pattern 4: /(\d+)/ : the first run of digits
Pattern4(s) ==
    LET ds == {k \in 1..Len(s) : IsDigit(s[k])}
    IN  IF ds = {} THEN <<>>
        ELSE LET first == CHOOSE k \in ds : \A m \in ds : k <= m
                 stop == CHOOSE e \in first..Len(s) :
                            /\ \A m \in first..e : IsDigit(s[m])
                            /\ (e = Len(s) \/ ~IsDigit(s[e + 1]))
             IN  SubSeq(s, first, stop)

\* which pattern of extractSequenceNumber returns for this name, 0 for null
patternUsed(filename) ==
    LET s == nameWithoutExt(filename)
    IN  IF Pattern1(s) # <<>> THEN 1
        ELSE IF Pattern2(s) # <<>> THEN 2
        ELSE IF Pattern3(s) # <<>> THEN 3
        ELSE IF Pattern4(s) # <<>> THEN 4
        ELSE 0

extractSequenceNumber(filename) ==
    LET s == nameWithoutExt(filename)
    IN  IF Pattern1(s) # <<>> THEN parseInt(Pattern1(s))
        ELSE IF Pattern2(s) # <<>> THEN parseInt(Pattern2(s))
        ELSE IF Pattern3(s) # <<>> THEN parseInt(Pattern3(s))
        ELSE IF Pattern4(s) # <<>> THEN parseInt(Pattern4(s))
        ELSE Null

---------------------------------------------------------------------------
(* localeCompare(b, 'ru', { numeric: true }) *)

\* primary collation order of the characters the modelled names can hold:
\* white space, punctuation, digits, letters
CollationOrder ==
    <<" ", "_", "-", ".", "/", "\\",
      "0", "1", "2", "3", "4", "5", "6", "7", "8", "9",
      "a", "b", "c", "d", "e", "f", "g", "h", "i", "j", "k", "l", "m",
      "n", "o", "p", "q", "r", "s", "t", "u", "v", "w", "x", "y", "z">>

CollationRank(c) == CHOOSE k \in 1..Len(CollationOrder) : CollationOrder[k] = c

\* numeric collation: a run of digits is compared by its value, any other
\* character by its collation rank; -1, 0 or 1
RECURSIVE localeCompare(_, _)
localeCompare(a, b) ==
    IF a = <<>> /\ b = <<>> THEN 0
    ELSE IF a = <<>> THEN -1
    ELSE IF b = <<>> THEN 1
    ELSE IF IsDigit(a[1]) /\ IsDigit(b[1]) THEN
        LET ra == Pattern4(a)
            rb == Pattern4(b)
        IN  IF parseInt(ra) < parseInt(rb) THEN -1
            ELSE IF parseInt(ra) > parseInt(rb) THEN 1
            ELSE localeCompare(SubSeq(a, Len(ra) + 1, Len(a)),
                               SubSeq(b, Len(rb) + 1, Len(b)))
    ELSE IF CollationRank(a[1]) < CollationRank(b[1]) THEN -1
    ELSE IF CollationRank(a[1]) > CollationRank(b[1]) THEN 1
    ELSE localeCompare(Tail(a), Tail(b))

---------------------------------------------------------------------------
(* sortTranscriptionFiles *)

\* plain comparison of two strings character by character, digits not read
\* as numbers
RECURSIVE plainCompare(_, _)
plainCompare(a, b) ==
    IF a = <<>> /\ b = <<>> THEN 0
    ELSE IF a = <<>> THEN -1
    ELSE IF b = <<>> THEN 1
    ELSE IF CollationRank(a[1]) < CollationRank(b[1]) THEN -1
    ELSE IF CollationRank(a[1]) > CollationRank(b[1]) THEN 1
    ELSE plainCompare(Tail(a), Tail(b))

\* a comparator that orders the names as strings
sortComparator_asStrings(a, b) == plainCompare(fileNameOf(a), fileNameOf(b))

\* a comparator without the two lines that put a numbered file first
sortComparator_noPriority(a, b) ==
    LET fileA == fileNameOf(a)
        fileB == fileNameOf(b)
        numberA == extractSequenceNumber(fileA)
        numberB == extractSequenceNumber(fileB)
    IN  IF numberA # Null /\ numberB # Null THEN numberA - numberB
        ELSE localeCompare(fileA, fileB)

\* the comparator handed to Array.prototype.sort: negative, zero or positive
sortComparator(a, b) ==
    LET fileA == fileNameOf(a)
        fileB == fileNameOf(b)
        numberA == extractSequenceNumber(fileA)
        numberB == extractSequenceNumber(fileB)
    IN  IF numberA # Null /\ numberB # Null THEN numberA - numberB
        ELSE IF numberA # Null /\ numberB = Null THEN -1
        ELSE IF numberA = Null /\ numberB # Null THEN 1
        ELSE localeCompare(fileA, fileB)

\* Array.prototype.sort is stable: an element goes behind every element that
\* does not compare greater than it
\* an insertion that keeps one file per position of the order: a file that
\* compares equal to one already placed is dropped
RECURSIVE sortInsert_keyed(_, _)
sortInsert_keyed(sorted, x) ==
    IF sorted = <<>> THEN <<x>>
    ELSE IF sortComparator(Head(sorted), x) = 0 THEN sorted
    ELSE IF sortComparator(Head(sorted), x) < 0
         THEN <<Head(sorted)>> \o sortInsert_keyed(Tail(sorted), x)
         ELSE <<x>> \o sorted

RECURSIVE sortInsert(_, _)
sortInsert(sorted, x) ==
    IF sorted = <<>> THEN <<x>>
    ELSE IF sortComparator(Head(sorted), x) <= 0
         THEN <<Head(sorted)>> \o sortInsert(Tail(sorted), x)
         ELSE <<x>> \o sorted

\* the entries lo..hi of the array inserted one after the other, in array order
RECURSIVE insertRange(_, _, _, _)
insertRange(sorted, filePaths, lo, hi) ==
    IF lo > hi THEN sorted
    ELSE IF lo = hi THEN sortInsert(sorted, filePaths[lo])
    ELSE LET mid == (lo + hi) \div 2
             lower == insertRange(sorted, filePaths, lo, mid)
         IN  IF Len(lower) > 0 THEN insertRange(lower, filePaths, mid + 1, hi) ELSE <<>>

sortPrefix(filePaths, n) == insertRange(<<>>, filePaths, 1, n)

sortTranscriptionFiles(filePaths) == sortPrefix(filePaths, Len(filePaths))

\* firstFilePath.substring(0, firstFilePath.lastIndexOf('/'))
directoryOf(path) ==
    LET slashes == {k \in 1..Len(path) : path[k] = "/"}
    IN  IF slashes = {} THEN <<>>
        ELSE LET last == CHOOSE k \in slashes : \A m \in slashes : m <= k
             IN  SubSeq(path, 1, last - 1)

---------------------------------------------------------------------------
(* Inputs of a detection run *)

Stems == UNION {[1..k -> StemAlphabet] : k \in 1..MaxStemLen}

FileNames == {s \o Ext : s \in Stems}

\* the lists of up to MaxFiles distinct files of one directory
Selections ==
    UNION {{l \in [1..n -> FileNames] : \A i, j \in 1..n : i # j => l[i] # l[j]} :
           n \in 1..MaxFiles}

---------------------------------------------------------------------------
(* Handlers *)

\* displayTranscriptionFiles, setDefaultOutputPath and the enabling of the
\* merge button that end both handlers
\* file.split('/').pop()
displayNameOf(file) ==
    LET slashes == {k \in 1..Len(file) : file[k] = "/"}
    IN  IF slashes = {} THEN file
        ELSE LET last == CHOOSE k \in slashes : \A m \in slashes : m <= k
             IN  SubSeq(file, last + 1, Len(file))

\* a display that lists the files bottom-up
displayNames_reversed(files) ==
    [i \in 1..Len(files) |-> displayNameOf(files[Len(files) + 1 - i])]

\* displayTranscriptionFiles: one row per file, in list order
displayNames(files) == [i \in 1..Len(files) |-> displayNameOf(files[i])]

ShowDetected(files) ==
    /\ transcriptionFiles' = files
    /\ displayed' = displayNames(files)
    /\ clearAllBtnDisabled' = (Len(files) = 0)
    /\ mergeBtnDisabled' = FALSE
    /\ outputPath' = IF Len(files) > 0 /\ lastOutputPath = <<>>
                     THEN directoryOf(files[1])
                     ELSE outputPath
    /\ UNCHANGED lastOutputPath

\* no parse task was started
ParserIdle ==
    /\ rawFiles = <<>>
    /\ completed = {}
    /\ parsed = <<>>

\* the window as constructed: nothing chosen, nothing merged
NamesIdle ==
    /\ sequenceName = <<>>
    /\ sequenceNumber = Null
    /\ decidingPattern = 0

HandlersIdle ==
    /\ displayed = <<>>
    /\ selectedFile = <<>>
    /\ startProcessingBtnDisabled = TRUE
    /\ exportBtnDisabled = TRUE
    /\ invokedFiles = <<>>
    /\ mergeInFlight = 0
    /\ mergeTimers = 0
    /\ clicks = 0
    /\ pendingMerges = <<>>
    /\ lastMerged = <<>>
    /\ exportInFlight = 0
    /\ exportTimers = 0
    /\ infoRequests = <<>>
    /\ shownInfo = <<>>
    /\ processingRuns = 0
    /\ sentMaxDuration = <<>>
    /\ ffmpegProgressShown = FALSE
    /\ ffmpegReadyShown = FALSE
    /\ ffmpegHideTimers = 0
    /\ downloadInProgress = FALSE

ShellIdle == HandlersIdle /\ NamesIdle

\* the file dialog returned the array `selected`
selectTranscriptionFiles ==
    /\ pc = "idle"
    /\ ShowDetected(sortTranscriptionFiles(selected))
    /\ pc' = "detected"
    /\ via' = "dialog"
    /\ UNCHANGED <<selected, engineVars, repairVars, parseVars, shellRest>>

\* a tauri://file-drop event carried the transcription paths `selected`
handleTranscriptionFiles ==
    /\ pc = "idle"
    /\ Len(selected) > 0
    /\ ShowDetected(sortTranscriptionFiles(selected))
    /\ pc' = "detected"
    /\ via' = "drop"
    /\ UNCHANGED <<selected, engineVars, repairVars, parseVars, shellRest>>

Init ==
    /\ pc = "idle"
    /\ selected \in Selections
    /\ via = "none"
    /\ transcriptionFiles = <<>>
    /\ mergeBtnDisabled = TRUE
    /\ clearAllBtnDisabled = TRUE
    /\ outputPath = <<>>
    /\ lastOutputPath = <<>>
    /\ sourceFiles = <<>>
    /\ durations = <<>>
    /\ computedOffsets = <<>>
    /\ offsets = <<>>
    /\ merged = <<>>
    /\ warnings = {}
    /\ options = <<>>
    /\ repaired = <<>>
    /\ formatted = <<>>
    /\ ParserIdle
    /\ ShellIdle

Next ==
    \/ selectTranscriptionFiles
    \/ handleTranscriptionFiles

Spec == Init /\ [][Next]_vars

---------------------------------------------------------------------------
(* Sequence detection: properties *)

keyOf(path) == extractSequenceNumber(fileNameOf(path))

ruleOf(path) == patternUsed(fileNameOf(path))

Detected == pc = "detected"

\* every order in which the files of the list l can be discovered
PermutationsOf(l) ==
    LET n == Len(l)
        bijections == {f \in [1..n -> 1..n] : \A i, j \in 1..n : i # j => f[i] # f[j]}
    IN  {[i \in 1..n |-> l[f[i]]] : f \in bijections}

\* C1: when all names of the selection are keyed by one and the same rule,
\* every permutation of the selection is sorted to the order that was
\* detected.
C1_PermutationInvariant ==
    (Detected /\ \E k \in 1..4 : \A i \in 1..Len(selected) : ruleOf(selected[i]) = k)
        => \A p \in PermutationsOf(selected) :
              sortTranscriptionFiles(p) = transcriptionFiles

\* C2: no list with two files of the same order key is accepted as the
\* detected sequence.
C2_NoTieAccepted ==
    Detected =>
        \A i, j \in 1..Len(transcriptionFiles) :
            (i < j /\ keyOf(transcriptionFiles[i]) # Null)
                => keyOf(transcriptionFiles[i]) # keyOf(transcriptionFiles[j])

\* C3: within one detection run all keys are extracted by the same rule.
C3_OneRulePerRun ==
    Detected =>
        \A i, j \in 1..Len(transcriptionFiles) :
            (ruleOf(transcriptionFiles[i]) # 0 /\ ruleOf(transcriptionFiles[j]) # 0)
                => ruleOf(transcriptionFiles[i]) = ruleOf(transcriptionFiles[j])

NaturallyOrdered(l) ==
    \A i, j \in 1..Len(l) :
        i < j => localeCompare(fileNameOf(l[i]), fileNameOf(l[j])) <= 0

C5_NumericOrder ==
    Detected =>
        \A i, j \in 1..Len(transcriptionFiles) :
            (/\ keyOf(transcriptionFiles[i]) # Null
             /\ keyOf(transcriptionFiles[j]) # Null
             /\ keyOf(transcriptionFiles[i]) < keyOf(transcriptionFiles[j]))
                => i < j

\* key 2 was placed before key 12 although the dialog gave them the other
\* way round and "12" is before "2" as a string
C5_Witness ==
    /\ Detected
    /\ Len(transcriptionFiles) >= 2
    /\ keyOf(transcriptionFiles[1]) = 2
    /\ keyOf(transcriptionFiles[2]) = 12
    /\ selected[1] = transcriptionFiles[2]
    /\ plainCompare(fileNameOf(transcriptionFiles[1]),
                    fileNameOf(transcriptionFiles[2])) > 0

\* C6: the detected list holds every selected file exactly once.
C6_Permutation ==
    Detected =>
        /\ Len(transcriptionFiles) = Len(selected)
        /\ \A k \in 1..Len(selected) :
              Cardinality({i \in 1..Len(transcriptionFiles) :
                              transcriptionFiles[i] = selected[k]}) = 1

\* a list of two files with the same key was detected
C6_Witness ==
    /\ Detected
    /\ Len(transcriptionFiles) = 2
    /\ keyOf(transcriptionFiles[1]) # Null
    /\ keyOf(transcriptionFiles[1]) = keyOf(transcriptionFiles[2])

---------------------------------------------------------------------------
(* Transcript merge engine: Duration Resolver, Offset Accumulator and Merge *)
(* Assembler of the backend behind merge_transcriptions.  A SourceFile is   *)
(* [blocks, hint, override]: its ContentBlocks [start, end] in order of     *)
(* appearance, local times in ms, the duration hint of the media splitter   *)
(* and the manual offset override; Absent marks an optional value that is   *)
(* not there.                                                               *)

MaxMergeFiles == 2
MaxBlocks == 1

Absent == -1

\* the blocks a modelled file can hold: a token with an end, a shorter one,
\* and a start-only token later than both ends
BlockPool == { [start |-> 0, end |-> 4000],
               [start |-> 0, end |-> 3000],
               [start |-> 5000, end |-> Absent] }

HintPool == {Absent, 6000}

OverridePool == {Absent, 1000}

SourceFilePool ==
    [blocks : UNION {[1..n -> BlockPool] : n \in 0..MaxBlocks},
     hint : HintPool,
     override : OverridePool]

\* the runs: up to MaxMergeFiles files, a manual override on at most one
MergeInputs ==
    UNION {{fs \in [1..n -> SourceFilePool] :
                Cardinality({i \in 1..n : fs[i].override # Absent}) <= 1} :
           n \in 1..MaxMergeFiles}

MaxOf(S) == CHOOSE x \in S : \A y \in S : y <= x

\* a resolver that reads the hint only when the file has no timestamps
resolveDuration_hintLast(f) ==
    LET ends == {f.blocks[k].end : k \in 1..Len(f.blocks)} \ {Absent}
        starts == {f.blocks[k].start : k \in 1..Len(f.blocks)}
    IN  IF ends # {} THEN MaxOf(ends)
        ELSE IF starts # {} THEN MaxOf(starts)
        ELSE IF f.hint # Absent THEN f.hint
        ELSE 0

\* Duration Resolver: hint, else maximum end, else maximum start, else zero
resolveDuration(f) ==
    LET ends == {f.blocks[k].end : k \in 1..Len(f.blocks)} \ {Absent}
        starts == {f.blocks[k].start : k \in 1..Len(f.blocks)} \ {Absent}
    IN  IF f.hint # Absent THEN f.hint
        ELSE IF ends # {} THEN MaxOf(ends)
        ELSE IF starts # {} THEN MaxOf(starts)
        ELSE 0

\* the file has neither hint nor token: its duration is zero, with a warning
durationUnknown(f) ==
    f.hint = Absent /\ \A k \in 1..Len(f.blocks) : f.blocks[k].start = Absent

\* a running sum that adds the duration of the file itself
RECURSIVE runningSum_inclusive(_, _)
runningSum_inclusive(durs, i) ==
    IF i = 1 THEN durs[1] ELSE runningSum_inclusive(durs, i - 1) + durs[i]

\* Offset Accumulator: the sum of the durations of the files before file i
RECURSIVE runningSum(_, _)
runningSum(durs, i) ==
    IF i = 1 THEN 0 ELSE runningSum(durs, i - 1) + durs[i - 1]

\* an accumulator that carries a manual override on into the later files
applyOverrides_chained(fs, computed, i) ==
    LET given == {k \in 1..i : fs[k].override # Absent}
    IN  IF given = {} THEN computed[i]
        ELSE LET k == MaxOf(given)
             IN  fs[k].override + computed[i] - computed[k]

\* manual offset override: replaces the computed value of that file only
applyOverrides(fs, computed, i) ==
    IF fs[i].override # Absent THEN fs[i].override ELSE computed[i]

\* absolute_start = local_start + file_offset, the same for end when present
absoluteBlock(i, b, offset) ==
    [file |-> i,
     start |-> IF b.start = Absent THEN Absent ELSE b.start + offset,
     end |-> IF b.end = Absent THEN Absent ELSE b.end + offset]

\* an assembly that puts the blocks of a later file in front
RECURSIVE assemble_newestFirst(_, _, _)
assemble_newestFirst(fs, offs, n) ==
    IF n = 0 THEN <<>>
    ELSE [k \in 1..Len(fs[n].blocks) |-> absoluteBlock(n, fs[n].blocks[k], offs[n])]
         \o assemble_newestFirst(fs, offs, n - 1)

\* Merge Assembler: the blocks of files 1..n, file by file, each file's
\* blocks in their order of appearance
RECURSIVE assemble(_, _, _)
assemble(fs, offs, n) ==
    IF n = 0 THEN <<>>
    ELSE assemble(fs, offs, n - 1)
         \o [k \in 1..Len(fs[n].blocks) |-> absoluteBlock(n, fs[n].blocks[k], offs[n])]

ResolveDurations ==
    /\ pc = "ingested"
    /\ durations' = [i \in 1..Len(sourceFiles) |-> resolveDuration(sourceFiles[i])]
    /\ warnings' = warnings \cup
          {[kind |-> "DurationUnknown", file |-> i] :
              i \in {k \in 1..Len(sourceFiles) : durationUnknown(sourceFiles[k])}}
    /\ pc' = "resolved"
    /\ UNCHANGED <<uiVars, sourceFiles, computedOffsets, offsets, merged, repairVars,
                 parseVars, shellVars>>

AccumulateOffsets ==
    /\ pc = "resolved"
    /\ computedOffsets' = [i \in 1..Len(sourceFiles) |-> runningSum(durations, i)]
    /\ offsets' = [i \in 1..Len(sourceFiles) |->
                      applyOverrides(sourceFiles, computedOffsets', i)]
    /\ pc' = "accumulated"
    /\ UNCHANGED <<uiVars, sourceFiles, durations, merged, warnings, repairVars,
                 parseVars, shellVars>>

AssembleMerged ==
    /\ pc = "accumulated"
    /\ merged' = assemble(sourceFiles, offsets, Len(sourceFiles))
    /\ pc' = "assembled"
    /\ UNCHANGED <<uiVars, sourceFiles, durations, computedOffsets, offsets, warnings, repairVars,
                 parseVars, shellVars>>

\* gap_threshold_ms: 0 disables gap detection
GapThresholdPool == {0, 2000}

\* the end of the time block i of the document covers: its end, or its start
\* when it has no end
coveredUntil(doc, i) == IF doc[i].end # Absent THEN doc[i].end ELSE doc[i].start

\* Overlap: absolute_start(i+1) < absolute_end(i), or < absolute_start(i)
\* when block i has no end
overlapPairs(doc) ==
    {i \in 1..(Len(doc) - 1) :
        /\ doc[i].start # Absent
        /\ doc[i + 1].start # Absent
        /\ doc[i + 1].start < coveredUntil(doc, i)}

\* a gap detection that also runs with threshold 0
gapPairs_noSwitch(doc, threshold) ==
    {i \in 1..(Len(doc) - 1) :
        /\ doc[i].end # Absent
        /\ doc[i + 1].start # Absent
        /\ doc[i + 1].start - doc[i].end > threshold}

\* Gap: absolute_start(i+1) - absolute_end(i) exceeds the threshold
gapPairs(doc, threshold) ==
    IF threshold = 0 THEN {}
    ELSE {i \in 1..(Len(doc) - 1) :
            /\ doc[i].end # Absent
        /\ doc[i + 1].start # Absent
        /\ doc[i + 1].start - doc[i].end > threshold}

\* the synthetic block that fills the gap behind block i: no SourceFile, no text
fillerBlock(doc, i) == [file |-> 0, start |-> doc[i].end, end |-> doc[i + 1].start]

\* a repair that trims the end of a block to the start of the block behind it
RECURSIVE withFillers_trimmed(_, _, _)
withFillers_trimmed(doc, gaps, n) ==
    IF n = 0 THEN <<>>
    ELSE withFillers_trimmed(doc, gaps, n - 1)
         \o <<IF n < Len(doc) /\ doc[n].end # Absent /\ doc[n + 1].start < doc[n].end
              THEN [doc[n] EXCEPT !.end = doc[n + 1].start]
              ELSE doc[n]>>
         \o (IF n \in gaps THEN <<fillerBlock(doc, n)>> ELSE <<>>)

\* the first n blocks of the document, timestamps untouched, a filler behind
\* every block of `gaps`
RECURSIVE withFillers(_, _, _)
withFillers(doc, gaps, n) ==
    IF n = 0 THEN <<>>
    ELSE withFillers(doc, gaps, n - 1)
         \o <<doc[n]>>
         \o (IF n \in gaps THEN <<fillerBlock(doc, n)>> ELSE <<>>)

\* the repair pass that ends the assembly
RepairPass ==
    /\ pc = "assembled"
    /\ \E threshold \in GapThresholdPool, fill \in BOOLEAN :
          /\ options' = [gap_threshold_ms |-> threshold, fill_gaps |-> fill]
          /\ warnings' = warnings
                \cup {[kind |-> "Overlap", first |-> i, second |-> i + 1] :
                        i \in overlapPairs(merged)}
                \cup {[kind |-> "Gap", first |-> i, second |-> i + 1] :
                        i \in gapPairs(merged, threshold)}
          /\ repaired' = withFillers(merged,
                                     IF fill THEN gapPairs(merged, threshold) ELSE {},
                                     Len(merged))
    /\ pc' = "repaired"
    /\ UNCHANGED <<uiVars, engineVars_noWarnings, formatted, parseVars, shellVars>>

\* the duration given to a final block without end
MinimalBlockDuration == 1000

\* the target grammars: SRT and WebVTT write start and end, the bracketed
\* grammar writes the start only
Grammars == {"srt", "webvtt", "bracketed"}

NeedsEnd(grammar) == grammar \in {"srt", "webvtt"}

\* an end assignment that gives every block without end the default duration
endWritten_alwaysDefault(doc, i) ==
    IF doc[i].end # Absent THEN doc[i].end
    ELSE doc[i].start + MinimalBlockDuration

\* the end written for block i by a grammar that needs one
endWritten(doc, i) ==
    IF doc[i].end # Absent THEN doc[i].end
    ELSE IF i < Len(doc) THEN doc[i + 1].start
    ELSE doc[i].start + MinimalBlockDuration

formatEntries(doc, grammar) ==
    [i \in 1..Len(doc) |->
        [start |-> doc[i].start,
         end |-> IF NeedsEnd(grammar) THEN endWritten(doc, i) ELSE Absent]]

\* format(document, target_grammar, ...)
FormatDocument ==
    /\ pc = "repaired"
    /\ \E grammar \in Grammars :
          formatted' = [grammar |-> grammar, entries |-> formatEntries(repaired, grammar)]
    /\ pc' = "formatted"
    /\ UNCHANGED <<uiVars, engineVars, options, repaired, parseVars, shellVars>>

MergeInit ==
    /\ pc = "ingested"
    /\ selected = <<>>
    /\ via = "none"
    /\ transcriptionFiles = <<>>
    /\ mergeBtnDisabled = TRUE
    /\ clearAllBtnDisabled = TRUE
    /\ outputPath = <<>>
    /\ lastOutputPath = <<>>
    /\ sourceFiles \in MergeInputs
    /\ durations = <<>>
    /\ computedOffsets = <<>>
    /\ offsets = <<>>
    /\ merged = <<>>
    /\ warnings = {}
    /\ options = <<>>
    /\ repaired = <<>>
    /\ formatted = <<>>
    /\ ParserIdle
    /\ ShellIdle

MergeNext ==
    \/ ResolveDurations
    \/ AccumulateOffsets
    \/ AssembleMerged
    \/ RepairPass
    \/ FormatDocument

SpecMerge == MergeInit /\ [][MergeNext]_vars

(***************************************************************************)
(* The per-file parse tasks in front of the sequential phase.  A raw file  *)
(* is the sequence of its lines; a line is a timestamp token of the        *)
(* detected grammar or a line the grammar does not match.                  *)
(***************************************************************************)

RawLinePool ==
    {[kind |-> "token", start |-> 0, end |-> 4000],
     [kind |-> "token", start |-> 5000, end |-> 3000],
     [kind |-> "token", start |-> 5000, end |-> Absent],
     [kind |-> "text", start |-> Absent, end |-> Absent]}

RawFilePool ==
    UNION {[1..n -> RawLinePool] : n \in 0..MaxBlocks}

ParseInputs ==
    UNION {[1..n -> RawFilePool] : n \in 1..MaxMergeFiles}

UntimedBlock == [start |-> Absent, end |-> Absent]

\* a parser that keeps a token as it was written
blockOfToken_asWritten(line) == [start |-> line.start, end |-> line.end]

\* the block a timestamp token opens: a token whose end is before its start
\* is discarded and the block stays, untimed
blockOfToken(line) ==
    IF line.end # Absent /\ line.end < line.start
    THEN UntimedBlock
    ELSE [start |-> line.start, end |-> line.end]

tokenDiscarded(line) ==
    line.kind = "token" /\ line.end # Absent /\ line.end < line.start

\* the blocks of the first n lines: a token opens a block, any other line is
\* continuation text of the block before it
RECURSIVE parseBlocks(_, _)
parseBlocks(lines, n) ==
    IF n = 0 THEN <<>>
    ELSE parseBlocks(lines, n - 1)
         \o (IF lines[n].kind = "token" THEN <<blockOfToken(lines[n])>> ELSE <<>>)

\* the result of the parse task of file i
parseFile(i, lines) ==
    LET tokens == {n \in 1..Len(lines) : lines[n].kind = "token"}
    IN  IF tokens = {}
        THEN [blocks |-> <<UntimedBlock>>,
              warnings |-> {[kind |-> "NoParsableTimestamps", file |-> i, line |-> 0]}]
        ELSE [blocks |-> parseBlocks(lines, Len(lines)),
              warnings |->
                  {[kind |-> "TokenDiscarded", file |-> i, line |-> n] :
                      n \in {m \in tokens : tokenDiscarded(lines[m])}}
                  \cup {[kind |-> "LineDropped", file |-> i, line |-> n] :
                      n \in {m \in 1..Len(lines) :
                                /\ lines[m].kind = "text"
                                /\ \A k \in tokens : k > m}}]

NoResult == [blocks |-> <<>>, warnings |-> {}]

\* a sink that appends the results in the order the tasks complete
sinkPut_appended(sink, done, i, result) ==
    [sink EXCEPT ![Cardinality(done) + 1] = result]

\* the sink of the worker pool, keyed by original file index
sinkPut(sink, done, i, result) == [sink EXCEPT ![i] = result]

\* the parse task of file i completes and writes its result
ParseComplete(i) ==
    /\ pc = "parsing"
    /\ i \notin completed
    /\ parsed' = sinkPut(parsed, completed, i, parseFile(i, rawFiles[i]))
    /\ completed' = completed \cup {i}
    /\ UNCHANGED <<pc, rawFiles, uiVars, engineVars, repairVars, shellVars>>

\* all tasks have completed: the results are collected for the sequential phase
CollectResults ==
    /\ pc = "parsing"
    /\ completed = DOMAIN rawFiles
    /\ sourceFiles' = [i \in DOMAIN rawFiles |->
                          [blocks |-> parsed[i].blocks, hint |-> Absent, override |-> Absent]]
    /\ warnings' = UNION {parsed[i].warnings : i \in DOMAIN rawFiles}
    /\ pc' = "ingested"
    /\ UNCHANGED <<uiVars, durations, computedOffsets, offsets, merged,
                   repairVars, parseVars, shellVars>>

ParseInit ==
    /\ pc = "parsing"
    /\ selected = <<>>
    /\ via = "none"
    /\ transcriptionFiles = <<>>
    /\ mergeBtnDisabled = TRUE
    /\ clearAllBtnDisabled = TRUE
    /\ outputPath = <<>>
    /\ lastOutputPath = <<>>
    /\ sourceFiles = <<>>
    /\ durations = <<>>
    /\ computedOffsets = <<>>
    /\ offsets = <<>>
    /\ merged = <<>>
    /\ warnings = {}
    /\ options = <<>>
    /\ repaired = <<>>
    /\ formatted = <<>>
    /\ rawFiles \in ParseInputs
    /\ completed = {}
    /\ parsed = [i \in DOMAIN rawFiles |-> NoResult]
    /\ ShellIdle

ParseNext ==
    \/ \E i \in DOMAIN rawFiles : ParseComplete(i)
    \/ CollectResults
    \/ ResolveDurations
    \/ AccumulateOffsets
    \/ AssembleMerged
    \/ RepairPass

SpecParse == ParseInit /\ [][ParseNext]_vars

(***************************************************************************)
(* The window at work: any sequence of dialogs, drops, row buttons and     *)
(* merge clicks, with the replies of the backend and the 2000 ms timers.   *)
(***************************************************************************)

\* user events per run, and the rows whose buttons are clicked
MaxClicks == 4
MaxRow == 2

\* "Maximum files: 999 parts"
DocumentedMaxFiles == 999

DigitChar(d) == CHOOSE c \in Digits : DigitValue(c) = d

\* the decimal numeral of n
RECURSIVE numeral(_)
numeral(n) ==
    IF n < 10 THEN <<DigitChar(n)>>
    ELSE numeral(n \div 10) \o <<DigitChar(n % 10)>>

\* a selection of n numbered parts, last part first
numberedParts(n) == [i \in 1..n |-> numeral(n + 1 - i) \o Ext]

\* the selections at the documented maximum and one file above it
BulkSelections == {numberedParts(DocumentedMaxFiles), numberedParts(DocumentedMaxFiles + 1)}

\* what the file dialog (filter txt, srt, md) may return
DialogPool ==
    {<<<<"d", "/", "2">> \o Ext, <<"d", "/", "1">> \o Ext>>,
     <<<<"d", "/", "3">> \o Ext, <<"d", "/", "1">> \o Ext, <<"d", "/", "2">> \o Ext>>}

\* the payloads of tauri://file-drop
DropPool ==
    {<<<<"a", ".", "M", "P", "3">>>>,
     <<<<"a", ".", "p", "d", "f">>>>,
     <<<<"1", ".", "S", "R", "T">>>>,
     <<<<"2", ".", "t", "x", "t">>, <<"b", ".", "o", "g", "g">>,
       <<"1", ".", "t", "x", "t">>, <<"a", ".", "w", "a", "v">>>>}

\* filePath.split('.').pop()
lastDotPart(filePath) ==
    LET dots == {k \in 1..Len(filePath) : filePath[k] = "."}
    IN  IF dots = {} THEN filePath
        ELSE LET last == CHOOSE k \in dots : \A m \in dots : m <= k
             IN  SubSeq(filePath, last + 1, Len(filePath))

\* an extension compared as it is written
extensionOf_asWritten(filePath) == lastDotPart(filePath)

\* filePath.split('.').pop()?.toLowerCase()
extensionOf(filePath) == toLowerCase(lastDotPart(filePath))

mediaExtensions ==
    {<<"m", "p", "4">>, <<"a", "v", "i">>, <<"m", "o", "v">>, <<"m", "k", "v">>,
     <<"w", "e", "b", "m">>, <<"f", "l", "v">>, <<"w", "m", "v">>, <<"m", "p", "3">>,
     <<"w", "a", "v">>, <<"a", "a", "c">>, <<"f", "l", "a", "c">>, <<"o", "g", "g">>,
     <<"m", "4", "a">>, <<"w", "m", "a">>, <<"o", "p", "u", "s">>}

transcriptionExtensions == {<<"t", "x", "t">>, <<"s", "r", "t">>, <<"m", "d">>}

\* the two arrays the listener fills, in payload order
mediaFilesOf(files) ==
    SelectSeq(files, LAMBDA f : extensionOf(f) \in mediaExtensions)

transcriptionFilesOf(files) ==
    SelectSeq(files, LAMBDA f : /\ extensionOf(f) \notin mediaExtensions
                                 /\ extensionOf(f) \in transcriptionExtensions)

listVars == <<transcriptionFiles, displayed, mergeBtnDisabled, clearAllBtnDisabled,
              outputPath, lastOutputPath>>

\* the window takes events: after construction, and after a first detection
WindowOpen == pc \in {"window", "detected"}

\* one more event from the user or the backend
UserEvent ==
    /\ WindowOpen
    /\ clicks < MaxClicks
    /\ clicks' = clicks + 1

\* the sequence without its entry k
without(queue, k) == SubSeq(queue, 1, k - 1) \o SubSeq(queue, k + 1, Len(queue))

\* the transcription dialog returned the array `paths`
onTranscriptionDialog(paths) ==
    /\ UserEvent
    /\ ShowDetected(sortTranscriptionFiles(paths))
    /\ selected' = paths
    /\ via' = "dialog"
    /\ UNCHANGED <<pc, detachedVars, mergeCallVars, exportVars, mediaVars, ffmpegVars>>

\* handleMediaFiles: the first media path is selected, its info is requested
\* and the start button is enabled at once
handleMediaFiles(filePaths) ==
    IF Len(filePaths) > 0
    THEN /\ selectedFile' = filePaths[1]
         /\ infoRequests' = Append(infoRequests, [path |-> filePaths[1], awaited |-> FALSE])
         /\ startProcessingBtnDisabled' = FALSE
         /\ UNCHANGED <<shownInfo, processingRuns, sentMaxDuration>>
    ELSE UNCHANGED mediaVars

\* the listener of tauri://file-drop, with handleMediaFiles and
\* handleTranscriptionFiles; the look of the drop zone is left out
onFileDrop(files) ==
    /\ UserEvent
    /\ Len(files) > 0
    /\ handleMediaFiles(mediaFilesOf(files))
    /\ IF Len(transcriptionFilesOf(files)) > 0
       THEN ShowDetected(sortTranscriptionFiles(transcriptionFilesOf(files)))
       ELSE UNCHANGED listVars
    /\ selected' = files
    /\ via' = "drop"
    /\ UNCHANGED <<pc, detachedVars, mergeCallVars, exportVars, ffmpegVars>>

\* displayTranscriptionFiles() after the list became `files`
Redisplay(files) ==
    /\ transcriptionFiles' = files
    /\ displayed' = displayNames(files)
    /\ clearAllBtnDisabled' = (Len(files) = 0)
    /\ mergeBtnDisabled' = (Len(files) = 0)
    /\ UNCHANGED <<outputPath, lastOutputPath>>

\* a splice that overwrites the entry it should move
swapped_overwriting(files, i) ==
    [k \in 1..Len(files) |-> IF k = i THEN files[i + 1] ELSE files[k]]

\* the list with the entries at positions i and i + 1 exchanged (1-based)
swapped(files, i) ==
    [k \in 1..Len(files) |->
        IF k = i THEN files[i + 1] ELSE IF k = i + 1 THEN files[i] ELSE files[k]]

RowEventFrame ==
    UNCHANGED <<pc, selected, via, detachedVars, mergeCallVars, exportVars, mediaVars,
                ffmpegVars>>

\* the up button of row `index` (0-based)
moveFileUp(index) ==
    /\ UserEvent
    /\ index < Len(transcriptionFiles)
    /\ IF index > 0
       THEN Redisplay(swapped(transcriptionFiles, index))
       ELSE UNCHANGED listVars
    /\ RowEventFrame

\* the down button of row `index` (0-based)
moveFileDown(index) ==
    /\ UserEvent
    /\ index < Len(transcriptionFiles)
    /\ IF index < Len(transcriptionFiles) - 1
       THEN Redisplay(swapped(transcriptionFiles, index + 1))
       ELSE UNCHANGED listVars
    /\ RowEventFrame

\* the delete button of row `index` (0-based)
removeTranscriptionFile(index) ==
    /\ UserEvent
    /\ index < Len(transcriptionFiles)
    /\ Redisplay(without(transcriptionFiles, index + 1))
    /\ RowEventFrame

\* #clearAllBtn, clickable while enabled
clearAllTranscriptions ==
    /\ UserEvent
    /\ ~clearAllBtnDisabled
    /\ Redisplay(<<>>)
    /\ RowEventFrame

\* whether mergeTranscriptions returns before doing anything
mergeSkipped_never(files) == FALSE

\* if (this.transcriptionFiles.length === 0) return;
mergeSkipped(files) == Len(files) = 0

\* #mergeBtn, clickable while enabled: up to the await of the invocation
mergeTranscriptions ==
    /\ UserEvent
    /\ ~mergeBtnDisabled
    /\ IF mergeSkipped(transcriptionFiles)
       THEN UNCHANGED <<mergeBtnDisabled, invokedFiles, mergeInFlight, pendingMerges>>
       ELSE /\ mergeBtnDisabled' = TRUE
            /\ invokedFiles' = transcriptionFiles
            /\ mergeInFlight' = mergeInFlight + 1
            /\ pendingMerges' = Append(pendingMerges, transcriptionFiles)
    /\ UNCHANGED <<pc, selected, via, transcriptionFiles, displayed, clearAllBtnDisabled,
                   outputPath, lastOutputPath, detachedVars, mergeTimers, lastMerged,
                   exportVars, mediaVars, ffmpegVars>>

ReplyFrame ==
    UNCHANGED <<pc, selected, via, transcriptionFiles, displayed, clearAllBtnDisabled,
                outputPath, lastOutputPath, detachedVars, invokedFiles, mediaVars,
                ffmpegVars, clicks>>

\* the promise of the invocation k resolved: the rest of the try block
mergeResolved(k) ==
    /\ WindowOpen
    /\ k \in 1..Len(pendingMerges)
    /\ mergeInFlight' = mergeInFlight - 1
    /\ lastMerged' = pendingMerges[k]
    /\ pendingMerges' = without(pendingMerges, k)
    /\ exportBtnDisabled' = FALSE
    /\ mergeTimers' = mergeTimers + 1
    /\ UNCHANGED <<mergeBtnDisabled, exportInFlight, exportTimers>>
    /\ ReplyFrame

\* the promise of the invocation k rejected: the catch block
mergeRejected(k) ==
    /\ WindowOpen
    /\ k \in 1..Len(pendingMerges)
    /\ mergeInFlight' = mergeInFlight - 1
    /\ pendingMerges' = without(pendingMerges, k)
    /\ mergeBtnDisabled' = FALSE
    /\ UNCHANGED <<lastMerged, mergeTimers, exportVars>>
    /\ ReplyFrame

\* a 2000 ms timer of mergeTranscriptions fired
mergeTimerFired ==
    /\ WindowOpen
    /\ mergeTimers > 0
    /\ mergeTimers' = mergeTimers - 1
    /\ mergeBtnDisabled' = FALSE
    /\ UNCHANGED <<mergeInFlight, pendingMerges, lastMerged, exportVars>>
    /\ ReplyFrame

ExportFrame ==
    UNCHANGED <<pc, selected, via, listVars, detachedVars, mergeCallVars, mediaVars,
                ffmpegVars>>

\* #exportBtn, clickable while enabled: up to the await of the invocation;
\* the file name field is blank or not
exportResults(fileNameBlank) ==
    /\ UserEvent
    /\ ~exportBtnDisabled
    /\ IF outputPath = <<>> \/ fileNameBlank
       THEN UNCHANGED exportVars
       ELSE /\ exportBtnDisabled' = TRUE
            /\ exportInFlight' = exportInFlight + 1
            /\ UNCHANGED exportTimers
    /\ ExportFrame

\* the promise of an export resolved
exportResolved ==
    /\ WindowOpen
    /\ exportInFlight > 0
    /\ exportInFlight' = exportInFlight - 1
    /\ exportTimers' = exportTimers + 1
    /\ UNCHANGED <<exportBtnDisabled, clicks>>
    /\ ExportFrame

\* the promise of an export rejected
exportRejected ==
    /\ WindowOpen
    /\ exportInFlight > 0
    /\ exportInFlight' = exportInFlight - 1
    /\ exportBtnDisabled' = FALSE
    /\ UNCHANGED <<exportTimers, clicks>>
    /\ ExportFrame

\* a 2000 ms timer of exportResults fired
exportTimerFired ==
    /\ WindowOpen
    /\ exportTimers > 0
    /\ exportTimers' = exportTimers - 1
    /\ exportBtnDisabled' = FALSE
    /\ UNCHANGED <<exportInFlight, clicks>>
    /\ ExportFrame

\* what the media dialog (multiple: false) may return
MediaDialogPool == {<<"a", ".", "m", "p", "3">>, <<"b", ".", "o", "g", "g">>}

\* what the user may have typed into #maxDuration
DurationFieldPool ==
    {<<"5">>, <<"6", "0">>, <<"6", "1">>, <<"0">>, <<"-", "3">>, <<>>,
     <<"a">>, <<"2", ".", "5">>}

NaN == [nan |-> TRUE, value |-> 0]

Number(n) == [nan |-> FALSE, value |-> n]

\* the length of the run of decimal digits at the front of s
RECURSIVE leadingDigits(_)
leadingDigits(s) ==
    IF s # <<>> /\ IsDigit(Head(s)) THEN 1 + leadingDigits(Tail(s)) ELSE 0

\* parseInt(value): an optional sign and the digits behind it, NaN without digits
parseIntField(value) ==
    LET negative == value # <<>> /\ Head(value) = "-"
        signed == value # <<>> /\ Head(value) \in {"-", "+"}
        body == IF signed THEN Tail(value) ELSE value
        n == leadingDigits(body)
    IN  IF n = 0 THEN NaN
        ELSE Number((IF negative THEN -1 ELSE 1) * parseInt(SubSeq(body, 1, n)))

\* maxDuration * 60
toSeconds(minutes) == IF minutes.nan THEN NaN ELSE Number(minutes.value * 60)

MediaFrame ==
    UNCHANGED <<pc, selected, via, listVars, detachedVars, mergeCallVars, exportVars>>

\* the media dialog returned `path`: up to the await of displayFileInfo
selectFile(path) ==
    /\ UserEvent
    /\ selectedFile' = path
    /\ infoRequests' = Append(infoRequests, [path |-> path, awaited |-> TRUE])
    /\ UNCHANGED <<startProcessingBtnDisabled, shownInfo, processingRuns, sentMaxDuration>>
    /\ UNCHANGED ffmpegVars
    /\ MediaFrame

\* checkFFmpegStatus
checkFFmpegStatus ==
    /\ ffmpegReadyShown' = (IF ffmpegProgressShown THEN ffmpegReadyShown ELSE TRUE)
    /\ UNCHANGED <<ffmpegProgressShown, ffmpegHideTimers, downloadInProgress>>

\* selectFile enables the start button behind its await
enabledAfterInfo(request) == request.awaited

\* get_file_info call k resolved: the rest of the try block of displayFileInfo,
\* and the rest of selectFile when it awaited the call
fileInfoResolved(k) ==
    /\ WindowOpen
    /\ k \in 1..Len(infoRequests)
    /\ shownInfo' = infoRequests[k].path
    /\ checkFFmpegStatus
    /\ startProcessingBtnDisabled' =
          (IF enabledAfterInfo(infoRequests[k]) THEN FALSE ELSE startProcessingBtnDisabled)
    /\ infoRequests' = without(infoRequests, k)
    /\ UNCHANGED <<selectedFile, processingRuns, sentMaxDuration, clicks>>
    /\ MediaFrame

\* get_file_info call k rejected: the catch block of displayFileInfo, and the
\* rest of selectFile when it awaited the call
fileInfoRejected(k) ==
    /\ WindowOpen
    /\ k \in 1..Len(infoRequests)
    /\ startProcessingBtnDisabled' =
          (IF enabledAfterInfo(infoRequests[k]) THEN FALSE ELSE startProcessingBtnDisabled)
    /\ infoRequests' = without(infoRequests, k)
    /\ UNCHANGED <<selectedFile, shownInfo, processingRuns, sentMaxDuration, clicks>>
    /\ UNCHANGED ffmpegVars
    /\ MediaFrame

\* #startProcessingBtn, clickable while enabled, with `field` in #maxDuration:
\* up to the await of the invocation
startProcessing(field) ==
    /\ UserEvent
    /\ ~startProcessingBtnDisabled
    /\ IF selectedFile = <<>>
       THEN UNCHANGED <<startProcessingBtnDisabled, processingRuns, sentMaxDuration>>
       ELSE /\ startProcessingBtnDisabled' = TRUE
            /\ processingRuns' = processingRuns + 1
            /\ sentMaxDuration' = toSeconds(parseIntField(field))
    /\ UNCHANGED <<selectedFile, infoRequests, shownInfo>>
    /\ UNCHANGED ffmpegVars
    /\ MediaFrame

\* the processing-complete event of a run
onProcessingComplete ==
    /\ WindowOpen
    /\ processingRuns > 0
    /\ processingRuns' = processingRuns - 1
    /\ startProcessingBtnDisabled' = FALSE
    /\ UNCHANGED <<selectedFile, infoRequests, shownInfo, sentMaxDuration, clicks>>
    /\ UNCHANGED ffmpegVars
    /\ MediaFrame

\* the promise of start_audio_processing rejected: the catch block
startRejected ==
    /\ WindowOpen
    /\ processingRuns > 0
    /\ processingRuns' = processingRuns - 1
    /\ startProcessingBtnDisabled' = FALSE
    /\ UNCHANGED <<selectedFile, infoRequests, shownInfo, sentMaxDuration, clicks>>
    /\ UNCHANGED ffmpegVars
    /\ MediaFrame

ProgressPool == {50, 100}

\* an ffmpeg-download-progress event
updateFFmpegDownloadProgress(progress) ==
    /\ UserEvent
    /\ IF progress < 100
       THEN /\ ffmpegProgressShown' = TRUE
            /\ ffmpegReadyShown' = FALSE
            /\ UNCHANGED ffmpegHideTimers
       ELSE /\ ffmpegHideTimers' = ffmpegHideTimers + 1
            /\ UNCHANGED <<ffmpegProgressShown, ffmpegReadyShown>>
    /\ downloadInProgress' = (progress < 100)
    /\ UNCHANGED mediaVars
    /\ MediaFrame

\* a 1000 ms timer of updateFFmpegDownloadProgress fired
ffmpegHideTimerFired ==
    /\ WindowOpen
    /\ ffmpegHideTimers > 0
    /\ ffmpegHideTimers' = ffmpegHideTimers - 1
    /\ ffmpegProgressShown' = FALSE
    /\ ffmpegReadyShown' = TRUE
    /\ UNCHANGED <<downloadInProgress, mediaVars, clicks>>
    /\ MediaFrame

MediaNext ==
    \/ \E path \in MediaDialogPool : selectFile(path)
    \/ \E files \in DropPool : onFileDrop(files)
    \/ \E k \in 1..MaxClicks : fileInfoResolved(k)
    \/ \E k \in 1..MaxClicks : fileInfoRejected(k)
    \/ \E field \in DurationFieldPool : startProcessing(field)
    \/ onProcessingComplete
    \/ startRejected
    \/ \E progress \in ProgressPool : updateFFmpegDownloadProgress(progress)
    \/ ffmpegHideTimerFired

WindowInit ==
    /\ pc = "window"
    /\ selected = <<>>
    /\ via = "none"
    /\ transcriptionFiles = <<>>
    /\ mergeBtnDisabled = TRUE
    /\ clearAllBtnDisabled = TRUE
    /\ outputPath = <<>>
    /\ lastOutputPath = <<>>
    /\ sourceFiles = <<>>
    /\ durations = <<>>
    /\ computedOffsets = <<>>
    /\ offsets = <<>>
    /\ merged = <<>>
    /\ warnings = {}
    /\ options = <<>>
    /\ repaired = <<>>
    /\ formatted = <<>>
    /\ ParserIdle
    /\ ShellIdle

WindowNext ==
    \/ \E paths \in DialogPool : onTranscriptionDialog(paths)
    \/ \E files \in DropPool : onFileDrop(files)
    \/ \E index \in 0..(MaxRow - 1) : moveFileUp(index)
    \/ \E index \in 0..(MaxRow - 1) : moveFileDown(index)
    \/ \E index \in 0..(MaxRow - 1) : removeTranscriptionFile(index)
    \/ clearAllTranscriptions
    \/ mergeTranscriptions
    \/ \E k \in 1..MaxClicks : mergeResolved(k)
    \/ \E k \in 1..MaxClicks : mergeRejected(k)
    \/ mergeTimerFired
    \/ \E fileNameBlank \in BOOLEAN : exportResults(fileNameBlank)
    \/ exportResolved
    \/ exportRejected
    \/ exportTimerFired
    \/ \E k \in 1..MaxClicks : fileInfoResolved(k)
    \/ \E k \in 1..MaxClicks : fileInfoRejected(k)

SpecWindow == WindowInit /\ [][WindowNext]_vars

SpecMedia == WindowInit /\ [][MediaNext]_vars

---------------------------------------------------------------------------
(* extractSequenceNumber on its own *)

MaxNameLen == 3

NameAlphabet == {"0", "1", "a", "_", "-", " ", "."}

\* what a file name may start with
NamePrefixes ==
    {<<>>, <<"p", "a", "r", "t">>, <<"F", "i", "l", "e">>,
     <<"c", "h", "a", "p", "t", "e", "r">>, <<"7", "S", "e", "g", "m", "e", "n", "t">>}

NamePool ==
    {prefix \o rest : prefix \in NamePrefixes,
                      rest \in UNION {[1..k -> NameAlphabet] : k \in 0..MaxNameLen}}

\* a comparison about to take the number of one file name
NamesInit ==
    /\ pc = "compare"
    /\ sequenceName \in NamePool
    /\ sequenceNumber = Null
    /\ decidingPattern = 0
    /\ selected = <<>>
    /\ via = "none"
    /\ transcriptionFiles = <<>>
    /\ mergeBtnDisabled = TRUE
    /\ clearAllBtnDisabled = TRUE
    /\ outputPath = <<>>
    /\ lastOutputPath = <<>>
    /\ sourceFiles = <<>>
    /\ durations = <<>>
    /\ computedOffsets = <<>>
    /\ offsets = <<>>
    /\ merged = <<>>
    /\ warnings = {}
    /\ options = <<>>
    /\ repaired = <<>>
    /\ formatted = <<>>
    /\ ParserIdle
    /\ HandlersIdle

\* const numberA = this.extractSequenceNumber(fileA);
takeSequenceNumber ==
    /\ pc = "compare"
    /\ pc' = "numbered"
    /\ sequenceNumber' = extractSequenceNumber(sequenceName)
    /\ decidingPattern' = patternUsed(sequenceName)
    /\ UNCHANGED <<sequenceName, uiVars, backendVars, displayed, mergeCallVars, exportVars,
                   mediaVars, ffmpegVars, clicks>>

NamesNext == takeSequenceNumber

SpecNames == NamesInit /\ [][NamesNext]_vars

\* the window with a large selection waiting in the file dialog
BulkInit ==
    /\ pc = "idle"
    /\ selected \in BulkSelections
    /\ via = "none"
    /\ transcriptionFiles = <<>>
    /\ mergeBtnDisabled = TRUE
    /\ clearAllBtnDisabled = TRUE
    /\ outputPath = <<>>
    /\ lastOutputPath = <<>>
    /\ sourceFiles = <<>>
    /\ durations = <<>>
    /\ computedOffsets = <<>>
    /\ offsets = <<>>
    /\ merged = <<>>
    /\ warnings = {}
    /\ options = <<>>
    /\ repaired = <<>>
    /\ formatted = <<>>
    /\ ParserIdle
    /\ ShellIdle

BulkNext ==
    \/ selectTranscriptionFiles
    \/ handleTranscriptionFiles
    \/ \E index \in 0..(MaxRow - 1) : removeTranscriptionFile(index)
    \/ mergeTranscriptions
    \/ \E k \in 1..MaxClicks : mergeResolved(k)
    \/ \E k \in 1..MaxClicks : mergeRejected(k)
    \/ mergeTimerFired

SpecBulk == BulkInit /\ [][BulkNext]_vars

---------------------------------------------------------------------------
(* Merge engine: properties *)

Resolved == pc \in {"resolved", "accumulated", "assembled", "repaired", "formatted"}

Accumulated == pc \in {"accumulated", "assembled", "repaired", "formatted"}

Assembled == pc \in {"assembled", "repaired", "formatted"}

OffsetsWithoutOverride(k) ==
    LET fs == [sourceFiles EXCEPT ![k].override = Absent]
        durs == [i \in 1..Len(fs) |-> resolveDuration(fs[i])]
        computed == [i \in 1..Len(fs) |-> runningSum(durs, i)]
    IN  [i \in 1..Len(fs) |-> applyOverrides(fs, computed, i)]

\* C8: a manual override for file k sets the offset of file k and leaves the
\* offset of every other file as it is in the run without the override.
C8_OverrideFrame ==
    Accumulated =>
        \A k \in 1..Len(sourceFiles) :
            sourceFiles[k].override # Absent =>
                /\ offsets[k] = sourceFiles[k].override
                /\ \A j \in 1..Len(sourceFiles) :
                      j # k => offsets[j] = OffsetsWithoutOverride(k)[j]

\* an override changed the offset of a file that has a successor
C8_Witness ==
    /\ Accumulated
    /\ \E k \in 1..(Len(sourceFiles) - 1) :
          /\ sourceFiles[k].override # Absent
          /\ offsets[k] # computedOffsets[k]
          /\ durations[k] > 0
          /\ offsets[k + 1] = computedOffsets[k] + durations[k]

EndsOf(f) == {f.blocks[k].end : k \in 1..Len(f.blocks)} \ {Absent}

StartsOf(f) == {f.blocks[k].start : k \in 1..Len(f.blocks)} \ {Absent}

\* C9: the duration of a file is its hint when there is one, else the
\* maximum end of its tokens, else their maximum start, else zero with a
\* warning for the file.
C9_DurationPriority ==
    Resolved =>
        \A i \in 1..Len(sourceFiles) :
            LET f == sourceFiles[i]
                unknown == [kind |-> "DurationUnknown", file |-> i]
            IN  /\ f.hint # Absent => durations[i] = f.hint
                /\ (f.hint = Absent /\ EndsOf(f) # {})
                      => durations[i] = MaxOf(EndsOf(f))
                /\ (f.hint = Absent /\ EndsOf(f) = {} /\ StartsOf(f) # {})
                      => durations[i] = MaxOf(StartsOf(f))
                /\ (f.hint = Absent /\ StartsOf(f) = {})
                      => (durations[i] = 0 /\ unknown \in warnings)
                /\ (f.hint # Absent \/ StartsOf(f) # {}) => unknown \notin warnings

\* a hint won over the timestamps of its file, and a file without hint and
\* tokens got zero and a warning
C9_Witness ==
    /\ Resolved
    /\ \E i, j \in 1..Len(sourceFiles) :
          /\ sourceFiles[i].hint # Absent
          /\ EndsOf(sourceFiles[i]) # {}
          /\ durations[i] # MaxOf(EndsOf(sourceFiles[i]))
          /\ sourceFiles[j].hint = Absent
          /\ StartsOf(sourceFiles[j]) = {}
          /\ [kind |-> "DurationUnknown", file |-> j] \in warnings

RECURSIVE BlocksBefore(_)
BlocksBefore(i) ==
    IF i = 1 THEN 0 ELSE BlocksBefore(i - 1) + Len(sourceFiles[i - 1].blocks)

\* the two one-block files of the scenario, no hints, no overrides
ScenarioFiles ==
    << [blocks |-> <<[start |-> 0, end |-> 4000]>>, hint |-> Absent, override |-> Absent],
       [blocks |-> <<[start |-> 0, end |-> 3000]>>, hint |-> Absent, override |-> Absent] >>

ScenarioMerged ==
    << [file |-> 1, start |-> 0, end |-> 4000],
       [file |-> 2, start |-> 4000, end |-> 7000] >>

Repaired == pc \in {"repaired", "formatted"}

Formatted == pc = "formatted"

OverlapWarning(i) == [kind |-> "Overlap", first |-> i, second |-> i + 1]

GapWarning(i) == [kind |-> "Gap", first |-> i, second |-> i + 1]

\* C11: in the final document every adjacent pair of blocks has
\* absolute_start(i+1) >= absolute_start(i), whatever the assembled order was.
C11_AscendingAfterRepair ==
    Repaired =>
        \A i \in 1..(Len(repaired) - 1) : repaired[i + 1].start >= repaired[i].start

\* the blocks of the final document that come from a SourceFile
SourceBlocks(doc) == SelectSeq(doc, LAMBDA b : b.file # 0)

WideGaps(T) ==
    {i \in 1..(Len(merged) - 1) :
        merged[i].end # Absent /\ merged[i + 1].start - merged[i].end > T}

\* C13: with a threshold T > 0 the Gap warnings are exactly those of the pairs
\* with absolute_start(i+1) - absolute_end(i) > T, and with fill_gaps a filler
\* from absolute_end(i) to absolute_start(i+1) stands between the two blocks of
\* each such pair; with T = 0 there is no Gap warning and no filler.
C13_GapPolicy ==
    Repaired =>
        LET T == options.gap_threshold_ms
            fillers == {k \in 1..Len(repaired) : repaired[k].file = 0}
            place(i) == i + Cardinality({j \in WideGaps(T) : j < i})
        IN  /\ T > 0 =>
                /\ \A i \in 1..(Len(merged) - 1) :
                      GapWarning(i) \in warnings <=> i \in WideGaps(T)
                /\ options.fill_gaps =>
                      /\ Cardinality(fillers) = Cardinality(WideGaps(T))
                      /\ \A i \in WideGaps(T) :
                            /\ repaired[place(i)] = merged[i]
                            /\ repaired[place(i) + 1] =
                                  [file |-> 0, start |-> merged[i].end,
                                   end |-> merged[i + 1].start]
                            /\ repaired[place(i) + 2] = merged[i + 1]
                /\ ~options.fill_gaps => fillers = {}
            /\ T = 0 =>
                /\ \A w \in warnings : w.kind # "Gap"
                /\ fillers = {}

\* C13 witness: a threshold of 2000, gap filling on, and a pair 3000 apart
\* that got its warning and its filler.
C13_Witness ==
    /\ Repaired
    /\ options.gap_threshold_ms = 2000
    /\ options.fill_gaps
    /\ \E k \in 1..Len(repaired) :
          repaired[k].file = 0 /\ repaired[k].end - repaired[k].start = 3000
    /\ \E w \in warnings : w.kind = "Gap"

\* C17: an SRT or WebVTT entry of a block without end carries the start of the
\* next block as its end, and the entry of a final block without end carries
\* its start plus the minimal default duration.
C17_MissingEndAssigned ==
    (Formatted /\ formatted.grammar \in {"srt", "webvtt"}) =>
        \A i \in 1..Len(repaired) :
            repaired[i].end = Absent =>
                formatted.entries[i].end =
                    IF i < Len(repaired) THEN repaired[i + 1].start
                    ELSE repaired[i].start + MinimalBlockDuration

\* C17 witness: an SRT document whose last two blocks have no end.
C17_Witness ==
    /\ Formatted
    /\ formatted.grammar = "srt"
    /\ Len(repaired) >= 2
    /\ repaired[Len(repaired) - 1].end = Absent
    /\ repaired[Len(repaired)].end = Absent
    /\ formatted.entries[Len(repaired) - 1].end = repaired[Len(repaired)].start

(***************************************************************************)
(* The parse tasks.                                                        *)
(***************************************************************************)

Collected == pc \in {"ingested", "resolved", "accumulated", "assembled", "repaired"}

\* the number of timestamp tokens among the first n lines of file i
TokensUpTo(i, n) == Cardinality({m \in 1..n : rawFiles[i][m].kind = "token"})

\* C14: every block with an end has end >= start, in the sink, in the
\* collected files and in the merged document; a token whose end is before
\* its start has left a warning and an untimed block at its place in the file.
C14_EndNotBeforeStart ==
    /\ \A i \in completed :
          /\ \A k \in 1..Len(parsed[i].blocks) :
                parsed[i].blocks[k].end # Absent
                    => parsed[i].blocks[k].end >= parsed[i].blocks[k].start
          /\ \A n \in 1..Len(rawFiles[i]) :
                LET line == rawFiles[i][n]
                IN  (line.kind = "token" /\ line.end # Absent /\ line.end < line.start)
                    => /\ [kind |-> "TokenDiscarded", file |-> i, line |-> n]
                            \in parsed[i].warnings
                       /\ Len(parsed[i].blocks) >= TokensUpTo(i, n)
                       /\ parsed[i].blocks[TokensUpTo(i, n)] = UntimedBlock
    /\ \A k \in 1..Len(merged) :
          merged[k].end # Absent => merged[k].end >= merged[k].start

\* C14 witness: the task of a file with a 5000 -> 3000 token has completed.
C14_Witness ==
    \E i \in completed :
        \E n \in 1..Len(rawFiles[i]) :
            /\ rawFiles[i][n].kind = "token"
            /\ rawFiles[i][n].end = 3000
            /\ UntimedBlock = parsed[i].blocks[TokensUpTo(i, n)]

\* C16: whatever the order in which the tasks completed, slot i of the
\* collected files holds the parse of file i, the warnings are those of all
\* files, and so offsets and document are those of the files in index order.
C16_CompletionOrderFree ==
    Collected =>
        /\ \A i \in DOMAIN rawFiles :
              sourceFiles[i].blocks = parseFile(i, rawFiles[i]).blocks
        /\ \A i \in DOMAIN rawFiles : parseFile(i, rawFiles[i]).warnings \subseteq warnings
        /\ pc = "repaired" =>
              \A k \in 1..Len(merged) :
                  \E b \in 1..Len(parseFile(merged[k].file, rawFiles[merged[k].file]).blocks) :
                      LET local == parseFile(merged[k].file, rawFiles[merged[k].file]).blocks[b]
                      IN  merged[k].start =
                              IF local.start = Absent THEN Absent
                              ELSE local.start + offsets[merged[k].file]

\* C16 witness: the task of the second file completed before the task of the
\* first, and the two files parse to different blocks.
C16_Witness ==
    /\ pc = "parsing"
    /\ completed = {2}
    /\ parsed[2] = parseFile(2, rawFiles[2])
    /\ parsed[1] = NoResult
    /\ parseFile(1, rawFiles[1]).blocks # parseFile(2, rawFiles[2]).blocks

(***************************************************************************)
(* Detection and the window.                                               *)
(***************************************************************************)

\* C15: a selection in which two files carry the same number does not get
\* past detection: the run is aborted, and only such a selection is.
C15_TieAbortsDetection ==
    (\E i, j \in 1..Len(selected) :
        /\ i < j
        /\ keyOf(selected[i]) # Null
        /\ keyOf(selected[i]) = keyOf(selected[j]))
    => ~Detected

\* C18: no merge_transcriptions invocation carries more than 999 files.
C18_AtMost999Files == Len(invokedFiles) <= DocumentedMaxFiles

\* C19: a step that issues merge_transcriptions passes the transcription list
\* of that moment, and the names on display at that moment are the names of
\* the files passed, row by row.
C19_MergedAsDisplayed ==
    [][mergeInFlight' > mergeInFlight =>
          /\ invokedFiles' = transcriptionFiles
          /\ displayed = [k \in 1..Len(invokedFiles') |-> displayNameOf(invokedFiles'[k])]]_vars

\* C19 witness: an invocation is in flight with a list the user had reordered.
C19_Witness ==
    /\ mergeInFlight > 0
    /\ Len(invokedFiles) = 2
    /\ invokedFiles # sortTranscriptionFiles(invokedFiles)
    /\ invokedFiles = transcriptionFiles

\* the class of a dropped path, by the lower-cased text behind its last dot
ClassOf(path) ==
    LET ext == toLowerCase(lastDotPart(path))
    IN  IF ext \in mediaExtensions THEN "media"
        ELSE IF ext \in transcriptionExtensions THEN "transcription"
        ELSE "ignored"

PathsOfClass(files, class) == {files[k] : k \in {m \in 1..Len(files) : ClassOf(files[m]) = class}}

Range(l) == {l[k] : k \in 1..Len(l)}

\* C20: a file drop gives selectedFile a media path of the payload and no
\* other, gives transcriptionFiles the transcription paths of the payload and
\* no other, and changes neither when the payload has no path of that class.
C20_DropRouting ==
    [][\A files \in DropPool :
          onFileDrop(files) =>
              LET media == PathsOfClass(files, "media")
                  transcription == PathsOfClass(files, "transcription")
              IN  /\ media \cap transcription = {}
                  /\ media # {} => selectedFile' \in media
                  /\ media = {} => selectedFile' = selectedFile
                  /\ transcription # {} =>
                        /\ Range(transcriptionFiles') = transcription
                        /\ Len(transcriptionFiles') = Cardinality(transcription)
                  /\ transcription = {} => transcriptionFiles' = transcriptionFiles]_vars

\* C20 witness: after an upper-case media path and an upper-case transcription
\* path were routed, a drop of an unsupported path has left both in place.
C20_Witness ==
    /\ via = "drop"
    /\ selected = <<<<"a", ".", "p", "d", "f">>>>
    /\ selectedFile = <<"a", ".", "M", "P", "3">>
    /\ transcriptionFiles = <<<<"1", ".", "S", "R", "T">>>>

Count(l, x) == Cardinality({k \in 1..Len(l) : l[k] = x})

SameMultiset(a, b) ==
    /\ Len(a) = Len(b)
    /\ \A x \in Range(a) \cup Range(b) : Count(a, x) = Count(b, x)

\* positions lo and lo + 1 (1-based) exchanged, every other position kept
NeighboursExchanged(before, after, lo) ==
    /\ Len(after) = Len(before)
    /\ after[lo] = before[lo + 1]
    /\ after[lo + 1] = before[lo]
    /\ \A k \in 1..Len(before) : k \notin {lo, lo + 1} => after[k] = before[k]

\* C22: moveFileUp(i) with 0 < i < n exchanges the entries i-1 and i and keeps
\* all others, moveFileDown(i) with 0 <= i < n-1 exchanges the entries i and
\* i+1, both change nothing at the boundary, and every move leaves the length
\* and the multiset of paths of transcriptionFiles as they were.
C22_MovesOnlyPermute ==
    [][\A index \in 0..MaxRow :
          /\ moveFileUp(index) =>
                /\ SameMultiset(transcriptionFiles, transcriptionFiles')
                /\ IF index > 0
                   THEN NeighboursExchanged(transcriptionFiles, transcriptionFiles', index)
                   ELSE transcriptionFiles' = transcriptionFiles
          /\ moveFileDown(index) =>
                /\ SameMultiset(transcriptionFiles, transcriptionFiles')
                /\ IF index < Len(transcriptionFiles) - 1
                   THEN NeighboursExchanged(transcriptionFiles, transcriptionFiles',
                                            index + 1)
                   ELSE transcriptionFiles' = transcriptionFiles]_vars

\* C22 witness: the three selected files after the middle one was moved down,
\* an order that no selection produces.
C22_Witness ==
    /\ Len(selected) = 3
    /\ transcriptionFiles =
          <<<<"d", "/", "1", ".", "m", "d">>, <<"d", "/", "3", ".", "m", "d">>,
            <<"d", "/", "2", ".", "m", "d">>>>

\* C23: every invocation of merge_transcriptions carries at least one file.
C23_NeverMergesEmptyList ==
    [][mergeInFlight' > mergeInFlight => Len(invokedFiles') >= 1]_vars

\* C23 witness: after an invocation the list was emptied and the merge button
\* came back enabled, with a click left for the user: the state in which only
\* the length test of mergeTranscriptions keeps an empty invocation back.
C23_Witness ==
    /\ invokedFiles # <<>>
    /\ transcriptionFiles = <<>>
    /\ ~mergeBtnDisabled
    /\ clicks < MaxClicks

\* C24: at most one invocation of merge_transcriptions is in flight.
C24_OneMergeInFlight == mergeInFlight <= 1

\* C25: while the merge button is enabled transcriptionFiles is non-empty.
C25_EnabledMergeHasFiles == ~mergeBtnDisabled => transcriptionFiles # <<>>

\* C26: every invocation of export_merged_transcription happens while the
\* transcription list is the list of the most recent successful merge.
C26_ExportsTheMergedList ==
    [][exportInFlight' > exportInFlight =>
          /\ lastMerged # <<>>
          /\ transcriptionFiles = lastMerged]_vars

\* C21: every invocation of start_audio_processing carries a maxDuration that
\* is a number of seconds from 60 to 3600.
C21_MaxDurationInRange ==
    processingRuns > 0 =>
        /\ ~sentMaxDuration.nan
        /\ 60 <= sentMaxDuration.value
        /\ sentMaxDuration.value <= 3600

\* C27: when no get_file_info reply is pending, the file info on display is
\* that of the selected file.
C27_ShownInfoOfSelectedFile ==
    (infoRequests = <<>> /\ shownInfo # <<>>) => shownInfo = selectedFile

\* C28: at most one audio-processing run is active.
C28_OneProcessingRun == processingRuns <= 1

\* C29: while a download is in progress the ready indicator is hidden and the
\* download progress bar is visible.
C29_NotReadyWhileDownloading ==
    downloadInProgress => (~ffmpegReadyShown /\ ffmpegProgressShown)

\* the run of digits that ends s, <<>> if s does not end in a digit
RECURSIVE trailingDigitRun(_)
trailingDigitRun(s) ==
    IF s = <<>> \/ ~IsDigit(s[Len(s)]) THEN <<>>
    ELSE Append(trailingDigitRun(SubSeq(s, 1, Len(s) - 1)), s[Len(s)])

\* the first run of digits of s, <<>> if s has no digit
RECURSIVE firstDigitRun(_)
firstDigitRun(s) ==
    IF s = <<>> THEN <<>>
    ELSE IF IsDigit(Head(s)) THEN SubSeq(s, 1, leadingDigits(s))
    ELSE firstDigitRun(Tail(s))

\* the decimal value of a run of digits, most significant digit first
RECURSIVE runValue(_, _)
runValue(acc, ds) ==
    IF ds = <<>> THEN acc ELSE runValue(10 * acc + DigitValue(Head(ds)), Tail(ds))

\* the two-step reference: the trailing digit run, else the first digit run
referenceNumber(name) ==
    LET s == nameWithoutExt(name)
    IN  IF trailingDigitRun(s) # <<>> THEN runValue(0, trailingDigitRun(s))
        ELSE IF firstDigitRun(s) # <<>> THEN runValue(0, firstDigitRun(s))
        ELSE Null

\* C30: extractSequenceNumber returns the value of the trailing digit run of
\* the name without extension if there is one, else the value of its first
\* digit run, else null; and neither pattern 2 nor pattern 3 is the pattern
\* that returns.
C30_TwoStepReference ==
    pc = "numbered" =>
        /\ sequenceNumber = referenceNumber(sequenceName)
        /\ decidingPattern \notin {2, 3}

\* C30 witness: a number was taken from a name that pattern 2 and pattern 3
\* both match, with a keyword in capitals and a first digit run that is not
\* the trailing one.
C30_Witness ==
    /\ pc = "numbered"
    /\ Pattern2(nameWithoutExt(sequenceName)) # <<>>
    /\ Pattern3(nameWithoutExt(sequenceName)) # <<>>
    /\ toLowerCase(sequenceName) # sequenceName
    /\ firstDigitRun(nameWithoutExt(sequenceName)) #
          trailingDigitRun(nameWithoutExt(sequenceName))
    /\ sequenceNumber # Null

====
